---- MODULE Spec2Model ----
(***************************************************************************)
(* A model of fintual.py: Stock (random prices), Portfolio (a random       *)
(* sample of the ticker catalog) and the two reporting operations          *)
(* calculate_profit_between and calculate_profit_annualized.               *)
(*                                                                         *)
(* Representation.                                                         *)
(*  - A Python str is a sequence of one-character strings.                 *)
(*  - A price is a whole number of cents: randint(1, 1000) +               *)
(*    randint(1, 100) / 100 is 100 * i + c cents.                          *)
(*  - A float that is a quotient is kept as the exact fraction             *)
(*    [num, den]; the annualized return keeps its base and exponent.       *)
(*  - The reporting operations advance statement by statement (pc is the   *)
(*    statement about to run), so that what has happened before an         *)
(*    exception leaves the method is visible in the state.                 *)
(***************************************************************************)
EXTENDS Integers, Sequences, FiniteSets

VARIABLES
    stocks,             \* Portfolio.stocks: the sequence of Stock names
    pc,                 \* the statement about to run
    op,                 \* the method being executed
    start_date_str,     \* argument start_date_str / date_str
    end_date_str,       \* argument end_date_str
    start_date,         \* local start_date (a parsed date)
    end_date,           \* local end_date
    initial_price,      \* local initial_price, in cents
    final_price,        \* local final_price, in cents
    years,              \* local years, a fraction
    total_profit,       \* local total_profit, a fraction
    annualized_profit,  \* local annualized_profit
    output,             \* the lines printed by the current call
    exc,                \* the exception that left the current call
    price               \* the value returned by Stock.get_price()

vars == <<stocks, pc, op, start_date_str, end_date_str, start_date, end_date,
          initial_price, final_price, years, total_profit, annualized_profit,
          output, exc, price>>

----------------------------------------------------------------------------
(* Module constants, fintual.py lines 6-10.                                *)

CUSTOM_RANDOM_STOCKS ==
    <<"MSFT", "AAPL", "AMZN", "GOOGL", "TSLA", "META", "NVDA", "FINTUAL">>

\* "Invalid date format. Please use the format yyyy-mm-dd."
MESSAGE_ERROR ==
    <<"I", "n", "v", "a", "l", "i", "d", " ", "d", "a", "t", "e", " ",
      "f", "o", "r", "m", "a", "t", ".", " ", "P", "l", "e", "a", "s", "e",
      " ", "u", "s", "e", " ", "t", "h", "e", " ", "f", "o", "r", "m", "a",
      "t", " ", "y", "y", "y", "y", "-", "m", "m", "-", "d", "d", ".">>

----------------------------------------------------------------------------
(* Values that stand for "not assigned yet".                               *)

NoStr == <<"<", "u", "n", "s", "e", "t", ">">>
NoDate == [year |-> 0, month |-> 0, day |-> 0]
NoPrice == 0 - 1
NoFraction == [num |-> 0, den |-> 0]
NoReturn == [kind |-> "unset", base_num |-> 0, base_den |-> 0,
             exp_num |-> 0, exp_den |-> 0]
NoExc == [type |-> "None", message |-> <<>>]

----------------------------------------------------------------------------
(* InvalidDateFormat.__init__, lines 12-21: the message is                 *)
(* f"{date} is not a valid date. {MESSAGE_ERROR}".                         *)

InvalidDateFormat(date) ==
    [type |-> "InvalidDateFormat",
     message |-> date \o <<" ", "i", "s", " ", "n", "o", "t", " ", "a", " ",
                           "v", "a", "l", "i", "d", " ", "d", "a", "t", "e",
                           ".", " ">> \o MESSAGE_ERROR]

\* The built-in arithmetic errors raised at line 127 (their text is the
\* interpreter's and is not modelled).
ZeroDivisionError == [type |-> "ZeroDivisionError", message |-> <<>>]
OverflowError == [type |-> "OverflowError", message |-> <<>>]

----------------------------------------------------------------------------
(* datetime.strptime(date_str, "%Y-%m-%d"), line 88.                       *)
(* CPython turns the format into the regular expression                    *)
(*   (?P<Y>\d\d\d\d)-(?P<m>1[0-2]|0[1-9]|[1-9])-                            *)
(*   (?P<d>3[0-1]|[1-2]\d|0[1-9]|[1-9]| [1-9])                              *)
(* matches it at the start of the string, raises ValueError when nothing   *)
(* matches or when text remains after the match, converts the groups with  *)
(* int() and builds the date, which raises ValueError for year 0 and for a *)
(* day the month does not have.                                            *)

Digits == {"0", "1", "2", "3", "4", "5", "6", "7", "8", "9"}
NonZeroDigits == Digits \ {"0"}

DigitVal(c) ==
    CASE c = "0" -> 0 [] c = "1" -> 1 [] c = "2" -> 2 [] c = "3" -> 3
      [] c = "4" -> 4 [] c = "5" -> 5 [] c = "6" -> 6 [] c = "7" -> 7
      [] c = "8" -> 8 [] c = "9" -> 9 [] OTHER -> 0

\* The character at position i, or "" past the end of the string.
At(s, i) == IF i >= 1 /\ i <= Len(s) THEN s[i] ELSE ""

\* The length matched at position i by each alternative of the month group,
\* in the order the alternatives are tried (0: the alternative fails).
MonthAlternatives(s, i) ==
    << IF At(s, i) = "1" /\ At(s, i + 1) \in {"0", "1", "2"} THEN 2 ELSE 0,
       IF At(s, i) = "0" /\ At(s, i + 1) \in NonZeroDigits THEN 2 ELSE 0,
       IF At(s, i) \in NonZeroDigits THEN 1 ELSE 0 >>

\* The same for the day group.
DayAlternatives(s, i) ==
    << IF At(s, i) = "3" /\ At(s, i + 1) \in {"0", "1"} THEN 2 ELSE 0,
       IF At(s, i) \in {"1", "2"} /\ At(s, i + 1) \in Digits THEN 2 ELSE 0,
       IF At(s, i) = "0" /\ At(s, i + 1) \in NonZeroDigits THEN 2 ELSE 0,
       IF At(s, i) \in NonZeroDigits THEN 1 ELSE 0,
       IF At(s, i) = " " /\ At(s, i + 1) \in NonZeroDigits THEN 2 ELSE 0 >>

\* The first alternative that matches, 0 when none does.
FirstMatch(alts) ==
    IF \E k \in 1..Len(alts) : alts[k] > 0
    THEN CHOOSE k \in 1..Len(alts) :
             alts[k] > 0 /\ \A j \in 1..(k - 1) : alts[j] = 0
    ELSE 0

\* A month alternative k is usable when it matches, a "-" follows it and
\* some day alternative matches after that "-"; the engine backtracks over
\* the month alternatives in order until one is usable.
MonthUsable(s, k) ==
    LET n == MonthAlternatives(s, 6)[k]
    IN  /\ n > 0
        /\ At(s, 6 + n) = "-"
        /\ FirstMatch(DayAlternatives(s, 6 + n + 1)) > 0

\* int() of the text s[i..j]; int() skips surrounding blanks.
RECURSIVE IntOf(_, _, _)
IntOf(s, i, j) ==
    IF j < i THEN 0
    ELSE IF s[j] = " " THEN IntOf(s, i, j - 1)
    ELSE 10 * IntOf(s, i, j - 1) + DigitVal(s[j])

\* The regular expression's match: [ok, Y, m, d, end].
NoMatch == [ok |-> FALSE, Y |-> 0, m |-> 0, d |-> 0, end |-> 0]

\* The first usable month alternative (there is one).
FirstUsableMonth(s) ==
    CHOOSE k \in 1..3 :
        MonthUsable(s, k) /\ \A j \in 1..(k - 1) : ~MonthUsable(s, j)

\* The match, given the lengths mlen and dlen of the month and day texts.
MatchOfLengths(s, mlen, dlen) ==
    [ok  |-> TRUE,
     Y   |-> IntOf(s, 1, 4),
     m   |-> IntOf(s, 6, 5 + mlen),
     d   |-> IntOf(s, 7 + mlen, 6 + mlen + dlen),
     end |-> 6 + mlen + dlen]

DayLength(alts) == alts[FirstMatch(alts)]

MatchOfMonthLength(s, mlen) ==
    MatchOfLengths(s, mlen, DayLength(DayAlternatives(s, 7 + mlen)))

RegexMatch(s) ==
    IF /\ \A i \in 1..4 : At(s, i) \in Digits
       /\ At(s, 5) = "-"
       /\ \E k \in 1..3 : MonthUsable(s, k)
    THEN MatchOfMonthLength(s, MonthAlternatives(s, 6)[FirstUsableMonth(s)])
    ELSE NoMatch

\* datetime's calendar: _is_leap and _days_in_month.
is_leap(year) ==
    year % 4 = 0 /\ (year % 100 # 0 \/ year % 400 = 0)

DAYS_IN_MONTH == <<31, 28, 31, 30, 31, 30, 31, 31, 30, 31, 30, 31>>

days_in_month(year, month) ==
    IF month = 2 /\ is_leap(year) THEN 29 ELSE DAYS_IN_MONTH[month]

\* The date of a match of the whole string of length n, or NoDate for
\* ValueError.
DateOfMatch_swapped(found, n) ==
    IF ~found.ok \/ found.end # n THEN NoDate
    ELSE IF found.Y < 1 \/ found.d > days_in_month(found.Y, found.m)
    THEN NoDate
    ELSE [year |-> found.Y, month |-> found.d, day |-> found.m]

DateOfMatch(found, n) ==
    IF ~found.ok \/ found.end # n THEN NoDate
    ELSE IF found.Y < 1 \/ found.d > days_in_month(found.Y, found.m)
    THEN NoDate
    ELSE [year |-> found.Y, month |-> found.m, day |-> found.d]

strptime(date_str) == DateOfMatch(RegexMatch(date_str), Len(date_str))

----------------------------------------------------------------------------
(* Portfolio._validate_date_format, lines 75-90: the parsed date, or       *)
(* InvalidDateFormat(date_str) in place of strptime's ValueError.          *)

ValidatedDate(date_str, parsed) ==
    IF parsed = NoDate
    THEN [raised |-> TRUE, value |-> NoDate, exc |-> InvalidDateFormat(date_str)]
    ELSE [raised |-> FALSE, value |-> parsed, exc |-> NoExc]

validate_date_format(date_str) == ValidatedDate(date_str, strptime(date_str))

----------------------------------------------------------------------------
(* random.randint(a, b): any integer of a..b.                              *)

randint(a, b) == a..b

(* Stock._generate_random_price, line 40, for the two draws i and c:       *)
(* i + c / 100 dollars, that is 100 * i + c cents.  Stock.get_price,       *)
(* lines 51-57, returns it unchanged.                                      *)

generate_random_price_from_zero(i, c) == 100 * (i - 1) + (c - 1)

generate_random_price(i, c) == 100 * i + c

get_price(i, c) == generate_random_price(i, c)

\* The least and the greatest element of a finite set of integers.
Extremes(S) ==
    {x \in S : (\A y \in S : x <= y) \/ (\A y \in S : x >= y)}

\* The prices the reporting operations draw in this model: both draws of
\* line 40 at the ends of their ranges.
PriceDraws ==
    {get_price(i, c) : i \in Extremes(randint(1, 1000)),
                       c \in Extremes(randint(1, 100))}

(* Portfolio._get_portfolio_value, line 148: the sum of one fresh price    *)
(* per stock; the set of the sums the draws can give.                      *)

RECURSIVE SumOfPrices(_)
SumOfPrices(n) ==
    IF n = 0 THEN {0}
    ELSE {v + p : v \in SumOfPrices(n - 1), p \in PriceDraws}

get_portfolio_value(stks) == SumOfPrices(Len(stks))

----------------------------------------------------------------------------
(* datetime subtraction, line 102: (end_date - start_date).days is the     *)
(* difference of the two proleptic Gregorian ordinals (datetime's          *)
(* _ymd2ord); both times of day are 00:00:00.                              *)

days_before_year(year) ==
    LET y == year - 1
    IN  y * 365 + (y \div 4) - (y \div 100) + (y \div 400)

DAYS_BEFORE_MONTH == <<0, 31, 59, 90, 120, 151, 181, 212, 243, 273, 304, 334>>

days_before_month(year, month) ==
    DAYS_BEFORE_MONTH[month] + (IF month > 2 /\ is_leap(year) THEN 1 ELSE 0)

toordinal(date) ==
    days_before_year(date.year) + days_before_month(date.year, date.month)
        + date.day

abs(x) == IF x < 0 THEN 0 - x ELSE x

(* Portfolio._calculate_days_difference, lines 92-102.                     *)

calculate_days_difference_signed(start, end) ==
    toordinal(end) - toordinal(start)

calculate_days_difference(start, end) ==
    abs(toordinal(end) - toordinal(start))

(* Portfolio._calculate_years_difference, lines 104-114: days / 365.       *)

calculate_years_difference(start, end) ==
    [num |-> calculate_days_difference(start, end), den |-> 365]

----------------------------------------------------------------------------
(* Portfolio._calculate_profit_percentage, lines 130-140:                  *)
(* (final_price - initial_price) / initial_price * 100.  A float division  *)
(* by zero raises ZeroDivisionError.                                       *)

calculate_profit_percentage(initial, final) ==
    IF initial = 0
    THEN [raised |-> TRUE, value |-> NoFraction, exc |-> ZeroDivisionError]
    ELSE [raised |-> FALSE,
          value  |-> [num |-> (final - initial) * 100, den |-> initial],
          exc    |-> NoExc]

(* Portfolio._calculate_annualized_return, lines 116-127:                  *)
(* ((final_price / initial_price) ** (1 / years) - 1) * 100 in IEEE        *)
(* doubles.  1 / years raises ZeroDivisionError for years = 0.0.  A float  *)
(* power whose result exceeds the largest double raises OverflowError,     *)
(* which for the exponent 365 / days happens from the ratio                *)
(* 2 ** (1024 * days / 365) on; the table holds that ratio in thousandths, *)
(* rounded up, for days = 1, 2, 3 (for days >= 4 it is above 2388, more    *)
(* than any ratio of two portfolio values).  Below it the product by 100   *)
(* can still exceed the largest double, and is then inf, without error.    *)

POW_OVERFLOW_RATIO == <<6991, 48873, 341665>>
TIMES_100_INF_RATIO == <<6904, 47655, 328975>>

calculate_annualized_return_guarded(initial, final, yrs) ==
    [raised |-> FALSE,
     value  |-> [kind |-> "finite", base_num |-> final, base_den |-> initial,
                 exp_num |-> yrs.den, exp_den |-> yrs.num],
     exc    |-> NoExc]

calculate_annualized_return(initial, final, yrs) ==
    LET ratio == (final * 1000) \div initial
        value(kind) == [kind |-> kind, base_num |-> final, base_den |-> initial,
                        exp_num |-> yrs.den, exp_den |-> yrs.num]
    IN  IF initial = 0 \/ yrs.num = 0
        THEN [raised |-> TRUE, value |-> NoReturn, exc |-> ZeroDivisionError]
        ELSE IF yrs.num <= Len(POW_OVERFLOW_RATIO)
                /\ ratio >= POW_OVERFLOW_RATIO[yrs.num]
        THEN [raised |-> TRUE, value |-> NoReturn, exc |-> OverflowError]
        ELSE IF yrs.num <= Len(TIMES_100_INF_RATIO)
                /\ ratio >= TIMES_100_INF_RATIO[yrs.num]
        THEN [raised |-> FALSE, value |-> value("inf"), exc |-> NoExc]
        ELSE [raised |-> FALSE, value |-> value("finite"), exc |-> NoExc]

----------------------------------------------------------------------------
(* The inputs of the model.                                                *)

\* The portfolios the reporting operations are run on hold at most
\* MaxStocks stocks.
MaxStocks == 2

\* The date strings passed to the reporting operations: "2020-01-01",
\* "2020-01-02", "2022-01-01", "2022-13-01", "2021-02-30", "2022-1-1",
\* "not-a-date".
CallDateStrings ==
    {<<"2", "0", "2", "0", "-", "0", "1", "-", "0", "1">>,
     <<"2", "0", "2", "0", "-", "0", "1", "-", "0", "2">>,
     <<"2", "0", "2", "2", "-", "0", "1", "-", "0", "1">>,
     <<"2", "0", "2", "2", "-", "1", "3", "-", "0", "1">>,
     <<"2", "0", "2", "1", "-", "0", "2", "-", "3", "0">>,
     <<"2", "0", "2", "2", "-", "1", "-", "1">>,
     <<"n", "o", "t", "-", "a", "-", "d", "a", "t", "e">>}

\* The date strings passed to the validator alone: a year text, a
\* separator, a month text, a separator, a day text and a tail, in every
\* combination, and two strings of another shape.
YearTexts ==
    {<<"2", "0", "2", "0">>,
     <<"2", "0", "2", "1">>,
     <<"1", "9", "0", "0">>,
     <<"2", "0", "0", "0">>,
     <<"0", "0", "0", "0">>,
     <<"2", "0", "2">>,
     <<"2", "0", "2", "0", "0">>}
SeparatorTexts == {<<"-">>, <<"/">>}
MonthTexts ==
    {<<"0", "1">>,
     <<"1">>,
     <<"0", "2">>,
     <<"2">>,
     <<"0", "4">>,
     <<"1", "2">>,
     <<"1", "3">>,
     <<"0", "0">>}
DayTexts ==
    {<<"0", "1">>,
     <<"1">>,
     <<" ", "1">>,
     <<"2", "8">>,
     <<"2", "9">>,
     <<"3", "0">>,
     <<"3", "1">>,
     <<"3", "2">>,
     <<"0", "0">>}
TailTexts == {<<>>, <<" ">>, <<"x">>}

DateStrings ==
    {y \o a \o m \o b \o d \o t :
        y \in YearTexts, a \in SeparatorTexts, m \in MonthTexts,
        b \in SeparatorTexts, d \in DayTexts, t \in TailTexts}
    \cup {<<>>, <<"n", "o", "t", "-", "a", "-", "d", "a", "t", "e">>}

\* The dates passed to the years difference alone: the 1st and the 28th
\* to the last day of every month of five years.
ModelYears == {1900, 2000, 2020, 2021, 2022}

ModelDates ==
    {dt \in [year : ModelYears, month : 1..12, day : {1, 28, 29, 30, 31}] :
        dt.day <= days_in_month(dt.year, dt.month)}

----------------------------------------------------------------------------
(* Portfolio.__init__ and _generate_random_stocks, lines 62-73.            *)

\* random.sample(population, k), line 73, as CPython computes it: the
\* population is copied into a pool; k times, a position j of the live part
\* of the pool is drawn, pool[j] is appended to the result and the last
\* live element of the pool takes its place.  The result becomes
\* self.stocks (one Stock per name, line 73 and line 64).
WithoutPosition(pool, j) ==
    [i \in 1..(Len(pool) - 1) |-> IF i = j THEN pool[Len(pool)] ELSE pool[i]]

RECURSIVE sample_with_replacement(_, _, _)
sample_with_replacement(pool, k, result) ==
    IF k = 0 THEN stocks' = result
    ELSE \E j \in 1..Len(pool) :
             sample_with_replacement(pool, k - 1, Append(result, pool[j]))

RECURSIVE sample(_, _, _)
sample(pool, k, result) ==
    IF k = 0 THEN stocks' = result
    ELSE \E j \in 1..Len(pool) :
             sample(WithoutPosition(pool, j), k - 1, Append(result, pool[j]))

Portfolio_init ==
    /\ pc = "new"
    /\ \E stock_count \in randint(1, Len(CUSTOM_RANDOM_STOCKS)) :
           sample(CUSTOM_RANDOM_STOCKS, stock_count, <<>>)
    /\ pc' = "idle"
    /\ UNCHANGED <<op, start_date_str, end_date_str, start_date, end_date,
                   initial_price, final_price, years, total_profit,
                   annualized_profit, output, exc, price>>

----------------------------------------------------------------------------
(* Stock.get_price, lines 51-57, called once.                              *)

Stock_get_price ==
    /\ pc = "get_price"
    /\ \E i \in randint(1, 1000), c \in randint(1, 100) :
           price' = get_price(i, c)
    /\ pc' = "returned"
    /\ UNCHANGED <<stocks, op, start_date_str, end_date_str, start_date,
                   end_date, initial_price, final_price, years, total_profit,
                   annualized_profit, output, exc>>

----------------------------------------------------------------------------
(* Portfolio._validate_date_format, lines 75-90, called once on            *)
(* start_date_str; the returned date is kept in start_date.                *)

Portfolio_validate_date_format ==
    /\ pc = "validate"
    /\ LET r == validate_date_format(start_date_str)
       IN  /\ start_date' = r.value
           /\ exc' = r.exc
           /\ pc' = IF r.raised THEN "raised" ELSE "returned"
    /\ UNCHANGED <<stocks, op, start_date_str, end_date_str, end_date,
                   initial_price, final_price, years, total_profit,
                   annualized_profit, output, price>>

----------------------------------------------------------------------------
(* Portfolio._calculate_years_difference, lines 104-114, called once on    *)
(* start_date and end_date.                                                *)

Portfolio_calculate_years_difference ==
    /\ pc = "years"
    /\ years' = calculate_years_difference(start_date, end_date)
    /\ pc' = "returned"
    /\ UNCHANGED <<stocks, op, start_date_str, end_date_str, start_date,
                   end_date, initial_price, final_price, total_profit,
                   annualized_profit, output, exc, price>>

----------------------------------------------------------------------------
(* Portfolio.calculate_profit_between, lines 150-165, statement by         *)
(* statement; pc names the line about to run.                              *)

locals == <<start_date, end_date, initial_price, final_price, years,
            total_profit, annualized_profit>>

\* The caller calls the method on a portfolio that is not executing one.
calculate_profit_between ==
    /\ pc \in {"idle", "returned", "raised"}
    /\ \E s \in CallDateStrings, e \in CallDateStrings :
           /\ start_date_str' = s
           /\ end_date_str' = e
    /\ op' = "between"
    /\ pc' = "between:157"
    /\ start_date' = NoDate
    /\ end_date' = NoDate
    /\ initial_price' = NoPrice
    /\ final_price' = NoPrice
    /\ years' = NoFraction
    /\ total_profit' = NoFraction
    /\ annualized_profit' = NoReturn
    /\ output' = <<>>
    /\ exc' = NoExc
    /\ UNCHANGED <<stocks, price>>

\* 157: self._validate_date_format(start_date_str)
between_157 ==
    /\ pc = "between:157"
    /\ LET r == validate_date_format(start_date_str)
       IN  /\ exc' = r.exc
           /\ pc' = IF r.raised THEN "raised" ELSE "between:158"
    /\ UNCHANGED <<stocks, op, start_date_str, end_date_str, locals, output, price>>

\* 158: self._validate_date_format(end_date_str)
between_158 ==
    /\ pc = "between:158"
    /\ LET r == validate_date_format(end_date_str)
       IN  /\ exc' = r.exc
           /\ pc' = IF r.raised THEN "raised" ELSE "between:160"
    /\ UNCHANGED <<stocks, op, start_date_str, end_date_str, locals, output, price>>

\* 160: initial_price = self._get_portfolio_value()
between_160 ==
    /\ pc = "between:160"
    /\ initial_price' \in get_portfolio_value(stocks)
    /\ pc' = "between:161"
    /\ UNCHANGED <<stocks, op, start_date_str, end_date_str, start_date,
                   end_date, final_price, years, total_profit,
                   annualized_profit, output, exc, price>>

\* 161: final_price = self._get_portfolio_value()
between_161 ==
    /\ pc = "between:161"
    /\ final_price' \in get_portfolio_value(stocks)
    /\ pc' = "between:163"
    /\ UNCHANGED <<stocks, op, start_date_str, end_date_str, start_date,
                   end_date, initial_price, years, total_profit,
                   annualized_profit, output, exc, price>>

\* 163: total_profit = self._calculate_profit_percentage(initial_price, final_price)
between_163 ==
    /\ pc = "between:163"
    /\ LET r == calculate_profit_percentage(initial_price, final_price)
       IN  /\ total_profit' = r.value
           /\ exc' = r.exc
           /\ pc' = IF r.raised THEN "raised" ELSE "between:165"
    /\ UNCHANGED <<stocks, op, start_date_str, end_date_str, start_date,
                   end_date, initial_price, final_price, years,
                   annualized_profit, output, price>>

\* 165: print(f"Profit between {start_date_str} and {end_date_str}: {total_profit:.2f}%")
\* A printed line is its fixed text, the strings put into it and the
\* number formatted into it.
BetweenLine(s, e, v) ==
    [text |-> "Profit between {} and {}: {:.2f}%", strs |-> <<s, e>>, value |-> v]

between_165 ==
    /\ pc = "between:165"
    /\ output' = Append(output, BetweenLine(start_date_str, end_date_str, total_profit))
    /\ pc' = "returned"
    /\ UNCHANGED <<stocks, op, start_date_str, end_date_str, locals, exc, price>>

----------------------------------------------------------------------------
(* Portfolio.calculate_profit_annualized, lines 168-186, statement by      *)
(* statement.                                                              *)

\* The order of the statements of the method: the line that runs after
\* `line` when `line` raises nothing.
annualized_next_print_early(line) ==
    CASE line = "annualized:174" -> "annualized:175"
      [] line = "annualized:175" -> "annualized:177"
      [] line = "annualized:177" -> "annualized:178"
      [] line = "annualized:178" -> "annualized:180"
      [] line = "annualized:180" -> "annualized:182"
      [] line = "annualized:182" -> "annualized:185"
      [] line = "annualized:185" -> "annualized:183"
      [] line = "annualized:183" -> "annualized:186"
      [] line = "annualized:186" -> "returned"

annualized_next(line) ==
    CASE line = "annualized:174" -> "annualized:175"
      [] line = "annualized:175" -> "annualized:177"
      [] line = "annualized:177" -> "annualized:178"
      [] line = "annualized:178" -> "annualized:180"
      [] line = "annualized:180" -> "annualized:182"
      [] line = "annualized:182" -> "annualized:183"
      [] line = "annualized:183" -> "annualized:185"
      [] line = "annualized:185" -> "annualized:186"
      [] line = "annualized:186" -> "returned"

calculate_profit_annualized ==
    /\ pc \in {"idle", "returned", "raised"}
    /\ \E s \in CallDateStrings, e \in CallDateStrings :
           /\ start_date_str' = s
           /\ end_date_str' = e
    /\ op' = "annualized"
    /\ pc' = "annualized:174"
    /\ start_date' = NoDate
    /\ end_date' = NoDate
    /\ initial_price' = NoPrice
    /\ final_price' = NoPrice
    /\ years' = NoFraction
    /\ total_profit' = NoFraction
    /\ annualized_profit' = NoReturn
    /\ output' = <<>>
    /\ exc' = NoExc
    /\ UNCHANGED <<stocks, price>>

\* 174: start_date = self._validate_date_format(start_date_str)
annualized_174 ==
    /\ pc = "annualized:174"
    /\ LET r == validate_date_format(start_date_str)
       IN  /\ start_date' = r.value
           /\ exc' = r.exc
           /\ pc' = IF r.raised THEN "raised" ELSE annualized_next(pc)
    /\ UNCHANGED <<stocks, op, start_date_str, end_date_str, end_date,
                   initial_price, final_price, years, total_profit,
                   annualized_profit, output, price>>

\* 175: end_date = self._validate_date_format(end_date_str)
annualized_175 ==
    /\ pc = "annualized:175"
    /\ LET r == validate_date_format(end_date_str)
       IN  /\ end_date' = r.value
           /\ exc' = r.exc
           /\ pc' = IF r.raised THEN "raised" ELSE annualized_next(pc)
    /\ UNCHANGED <<stocks, op, start_date_str, end_date_str, start_date,
                   initial_price, final_price, years, total_profit,
                   annualized_profit, output, price>>

\* 177: initial_price = self._get_portfolio_value()
annualized_177 ==
    /\ pc = "annualized:177"
    /\ initial_price' \in get_portfolio_value(stocks)
    /\ pc' = annualized_next(pc)
    /\ UNCHANGED <<stocks, op, start_date_str, end_date_str, start_date,
                   end_date, final_price, years, total_profit,
                   annualized_profit, output, exc, price>>

\* 178: final_price = self._get_portfolio_value()
annualized_178 ==
    /\ pc = "annualized:178"
    /\ final_price' \in get_portfolio_value(stocks)
    /\ pc' = annualized_next(pc)
    /\ UNCHANGED <<stocks, op, start_date_str, end_date_str, start_date,
                   end_date, initial_price, years, total_profit,
                   annualized_profit, output, exc, price>>

\* 180: years = self._calculate_years_difference(start_date, end_date)
annualized_180 ==
    /\ pc = "annualized:180"
    /\ years' = calculate_years_difference(start_date, end_date)
    /\ pc' = annualized_next(pc)
    /\ UNCHANGED <<stocks, op, start_date_str, end_date_str, start_date,
                   end_date, initial_price, final_price, total_profit,
                   annualized_profit, output, exc, price>>

\* 182: total_profit = self._calculate_profit_percentage(initial_price, final_price)
annualized_182 ==
    /\ pc = "annualized:182"
    /\ LET r == calculate_profit_percentage(initial_price, final_price)
       IN  /\ total_profit' = r.value
           /\ exc' = r.exc
           /\ pc' = IF r.raised THEN "raised" ELSE annualized_next(pc)
    /\ UNCHANGED <<stocks, op, start_date_str, end_date_str, start_date,
                   end_date, initial_price, final_price, years,
                   annualized_profit, output, price>>

\* 183: annualized_profit = self._calculate_annualized_return(initial_price, final_price, years)
annualized_183 ==
    /\ pc = "annualized:183"
    /\ LET r == calculate_annualized_return(initial_price, final_price, years)
       IN  /\ annualized_profit' = r.value
           /\ exc' = r.exc
           /\ pc' = IF r.raised THEN "raised" ELSE annualized_next(pc)
    /\ UNCHANGED <<stocks, op, start_date_str, end_date_str, start_date,
                   end_date, initial_price, final_price, years, total_profit,
                   output, price>>

\* 185: print(f"Profit since {start_date_str}: {total_profit:.2f}%")
SinceLine(s, v) ==
    [text |-> "Profit since {}: {:.2f}%", strs |-> <<s>>, value |-> v]

annualized_185 ==
    /\ pc = "annualized:185"
    /\ output' = Append(output, SinceLine(start_date_str, total_profit))
    /\ pc' = annualized_next(pc)
    /\ UNCHANGED <<stocks, op, start_date_str, end_date_str, locals, exc, price>>

\* 186: print(f"Annualized profit: {annualized_profit:.2f}%")
AnnualizedLine(v) ==
    [text |-> "Annualized profit: {:.2f}%", strs |-> <<>>, value |-> v]

annualized_186 ==
    /\ pc = "annualized:186"
    /\ output' = Append(output, AnnualizedLine(annualized_profit))
    /\ pc' = annualized_next(pc)
    /\ UNCHANGED <<stocks, op, start_date_str, end_date_str, locals, exc, price>>

----------------------------------------------------------------------------
(* Specifications.                                                         *)

Unset ==
    /\ op = "none"
    /\ start_date_str = NoStr
    /\ end_date_str = NoStr
    /\ start_date = NoDate
    /\ end_date = NoDate
    /\ initial_price = NoPrice
    /\ final_price = NoPrice
    /\ years = NoFraction
    /\ total_profit = NoFraction
    /\ annualized_profit = NoReturn
    /\ output = <<>>
    /\ exc = NoExc
    /\ price = NoPrice

\* Spec: a constructed portfolio on which the two reporting operations are
\* called, one call after another.  What the operations do depends on the
\* number of stocks only, so the portfolios are the samples that take the
\* first k tickers of the catalog.
Init ==
    /\ Unset
    /\ pc = "idle"
    /\ stocks \in {SubSeq(CUSTOM_RANDOM_STOCKS, 1, k) : k \in 1..MaxStocks}

Next ==
    \/ calculate_profit_between
    \/ between_157
    \/ between_158
    \/ between_160
    \/ between_161
    \/ between_163
    \/ between_165
    \/ calculate_profit_annualized
    \/ annualized_174
    \/ annualized_175
    \/ annualized_177
    \/ annualized_178
    \/ annualized_180
    \/ annualized_182
    \/ annualized_183
    \/ annualized_185
    \/ annualized_186

Spec == Init /\ [][Next]_vars

\* SpecConstruct: the construction of a portfolio.
InitConstruct ==
    /\ Unset
    /\ pc = "new"
    /\ stocks = <<>>

NextConstruct == Portfolio_init

SpecConstruct == InitConstruct /\ [][NextConstruct]_vars

\* SpecPrice: one call of Stock.get_price.
InitPrice ==
    /\ Unset
    /\ pc = "get_price"
    /\ stocks = <<>>

NextPrice == Stock_get_price

SpecPrice == InitPrice /\ [][NextPrice]_vars

\* SpecValidate: one call of the date validator on any of DateStrings.
InitValidate ==
    /\ op = "none"
    /\ start_date_str \in DateStrings
    /\ end_date_str = NoStr
    /\ start_date = NoDate
    /\ end_date = NoDate
    /\ initial_price = NoPrice
    /\ final_price = NoPrice
    /\ years = NoFraction
    /\ total_profit = NoFraction
    /\ annualized_profit = NoReturn
    /\ output = <<>>
    /\ exc = NoExc
    /\ price = NoPrice
    /\ pc = "validate"
    /\ stocks = <<>>

NextValidate == Portfolio_validate_date_format

SpecValidate == InitValidate /\ [][NextValidate]_vars

\* SpecYears: one call of the years difference on any two of ModelDates.
InitYears ==
    /\ op = "none"
    /\ start_date_str = NoStr
    /\ end_date_str = NoStr
    /\ start_date \in ModelDates
    /\ end_date \in ModelDates
    /\ initial_price = NoPrice
    /\ final_price = NoPrice
    /\ years = NoFraction
    /\ total_profit = NoFraction
    /\ annualized_profit = NoReturn
    /\ output = <<>>
    /\ exc = NoExc
    /\ price = NoPrice
    /\ pc = "years"
    /\ stocks = <<>>

NextYears == Portfolio_calculate_years_difference

SpecYears == InitYears /\ [][NextYears]_vars

----------------------------------------------------------------------------
(* What the specification means by a date string, stated without the       *)
(* validator: the strict form YYYY-MM-DD and the Gregorian calendar.       *)

StrictForm(s) ==
    /\ Len(s) = 10
    /\ \A i \in {1, 2, 3, 4, 6, 7, 9, 10} : s[i] \in Digits
    /\ s[5] = "-"
    /\ s[8] = "-"

WrittenYear(s) ==
    1000 * DigitVal(s[1]) + 100 * DigitVal(s[2]) + 10 * DigitVal(s[3])
        + DigitVal(s[4])
WrittenMonth(s) == 10 * DigitVal(s[6]) + DigitVal(s[7])
WrittenDay(s) == 10 * DigitVal(s[9]) + DigitVal(s[10])

WrittenDate(s) ==
    [year |-> WrittenYear(s), month |-> WrittenMonth(s), day |-> WrittenDay(s)]

LeapYear(y) == (y % 4 = 0 /\ y % 100 # 0) \/ y % 400 = 0

MonthLength(y, m) ==
    IF m \in {4, 6, 9, 11} THEN 30
    ELSE IF m = 2 THEN (IF LeapYear(y) THEN 29 ELSE 28)
    ELSE 31

\* A string of the strict form that names a date of the calendar (years
\* 1 to 9999, the years datetime has).
NamesValidDate(s) ==
    /\ StrictForm(s)
    /\ WrittenYear(s) >= 1
    /\ WrittenMonth(s) \in 1..12
    /\ WrittenDay(s) >= 1
    /\ WrittenDay(s) <= MonthLength(WrittenYear(s), WrittenMonth(s))

\* The message the specification gives for the offending string s.
ExpectedMessage(s) ==
    s \o <<" ", "i", "s", " ", "n", "o", "t", " ", "a", " ", "v", "a", "l", "i", "d", " ", "d", "a", "t", "e", ".", " ",
         "I", "n", "v", "a", "l", "i", "d", " ", "d", "a", "t", "e", " ", "f", "o", "r", "m", "a", "t", ".", " ",
         "P", "l", "e", "a", "s", "e", " ", "u", "s", "e", " ", "t", "h", "e", " ",
         "f", "o", "r", "m", "a", "t", " ", "y", "y", "y", "y", "-", "m", "m", "-", "d", "d", ".">>

\* The days from the first day of 1900 to the day `date`: 365 for every
\* year in between and one more for every leap year among them, then the
\* months of the year of `date` one by one.
DaysOfYears(from, to) ==
    365 * (to - from) + Cardinality({y \in from..(to - 1) : LeapYear(y)})

RECURSIVE DaysOfMonths(_, _)
DaysOfMonths(y, m) ==
    IF m <= 1 THEN 0 ELSE MonthLength(y, m - 1) + DaysOfMonths(y, m - 1)

DayNumber(date) ==
    DaysOfYears(1900, date.year) + DaysOfMonths(date.year, date.month) + date.day

CalendarDaysBetween(a, b) ==
    IF DayNumber(a) >= DayNumber(b) THEN DayNumber(a) - DayNumber(b)
    ELSE DayNumber(b) - DayNumber(a)

Date_2020_01_01 == <<"2", "0", "2", "0", "-", "0", "1", "-", "0", "1">>
Date_2022_01_01 == <<"2", "0", "2", "2", "-", "0", "1", "-", "0", "1">>

----------------------------------------------------------------------------
(* The claims.                                                             *)

\* C1: in both reporting operations, whenever the start or the end date
\* string is malformed (not of the strict form YYYY-MM-DD), the call raises
\* InvalidDateFormat before any valuation is computed and before any line
\* is printed: no price is ever assigned, no line is ever printed, the call
\* never returns normally and the exception that leaves it is
\* InvalidDateFormat.
C1_MalformedDateRaisesFirst ==
    (op \in {"between", "annualized"}
       /\ (~StrictForm(start_date_str) \/ ~StrictForm(end_date_str)))
    => /\ initial_price = NoPrice
       /\ final_price = NoPrice
       /\ output = <<>>
       /\ pc # "returned"
       /\ (pc = "raised" => exc.type = "InvalidDateFormat")

\* C2: a constructed portfolio holds between 1 and 8 stocks, every name is
\* one of the catalog and the names are pairwise distinct.
C2_StocksSampledFromCatalog ==
    pc = "idle"
    => /\ Len(stocks) >= 1
       /\ Len(stocks) <= 8
       /\ \A i \in 1..Len(stocks) :
              \E n \in 1..Len(CUSTOM_RANDOM_STOCKS) :
                  stocks[i] = CUSTOM_RANDOM_STOCKS[n]
       /\ \A i \in 1..Len(stocks), j \in 1..Len(stocks) :
              i # j => stocks[i] # stocks[j]

\* A portfolio of all eight tickers has been constructed.
C2_Witness == pc = "idle" /\ Len(stocks) = 8

\* C3: every price returned by get_price lies in [1.01, 1000.99] dollars,
\* that is in 101..100099 cents.
C3_PriceInDocumentedRange ==
    pc = "returned" => (price >= 101 /\ price <= 100099)

\* C4: the validator rejects every string that is not of the strict form
\* YYYY-MM-DD and every string of that form that names no calendar date,
\* raising InvalidDateFormat with the offending string followed by the
\* fixed text as its message.
C4_RejectsAllButStrictValid ==
    (pc # "validate" /\ ~NamesValidDate(start_date_str))
    => /\ pc = "raised"
       /\ exc.type = "InvalidDateFormat"
       /\ exc.message = ExpectedMessage(start_date_str)

\* C5: for every string of the strict form YYYY-MM-DD that names a calendar
\* date, the validator returns, without raising, the date whose year, month
\* and day are those written in the string.
C5_ValidDateParsedAsWritten ==
    (pc # "validate" /\ NamesValidDate(start_date_str))
    => /\ pc = "returned"
       /\ exc = NoExc
       /\ start_date = WrittenDate(start_date_str)

\* The validator has returned the leap day written as "2020-02-29".
C5_Witness ==
    /\ pc = "returned"
    /\ NamesValidDate(start_date_str)
    /\ start_date = [year |-> 2020, month |-> 2, day |-> 29]

\* C6: for two valid date strings in any calendar order, equal ones
\* included, calculate_profit_between raises nothing and returns having
\* printed exactly one line, which carries both strings and the percentage
\* (final - initial) / initial * 100 of the two valuations alone; the
\* parsed dates are never kept or used, and the initial valuation is never
\* zero.
C6_BetweenPrintsOneFiniteLine ==
    (op = "between" /\ NamesValidDate(start_date_str)
       /\ NamesValidDate(end_date_str))
    => /\ pc # "raised"
       /\ exc = NoExc
       /\ start_date = NoDate /\ end_date = NoDate /\ years = NoFraction
       /\ (initial_price # NoPrice => initial_price > 0)
       /\ (pc # "returned" => output = <<>>)
       /\ (pc = "returned"
             => /\ Len(output) = 1
                /\ output[1].text = "Profit between {} and {}: {:.2f}%"
                /\ output[1].strs = <<start_date_str, end_date_str>>
                /\ output[1].value.den = initial_price
                /\ output[1].value.den > 0
                /\ output[1].value.num = (final_price - initial_price) * 100)

\* calculate_profit_between("2022-01-01", "2020-01-01") has returned.
C6_Witness ==
    /\ op = "between"
    /\ pc = "returned"
    /\ start_date_str = Date_2022_01_01
    /\ end_date_str = Date_2020_01_01
    /\ Len(output) = 1

\* C7: for two valid date strings that name different dates, in either
\* order, calculate_profit_annualized raises nothing and returns having
\* printed exactly two lines, the cumulative profit and then the annualized
\* profit, whatever the two valuations are.
C7_AnnualizedAlwaysPrintsTwoLines ==
    (op = "annualized" /\ NamesValidDate(start_date_str)
       /\ NamesValidDate(end_date_str)
       /\ WrittenDate(start_date_str) # WrittenDate(end_date_str))
    => /\ pc # "raised"
       /\ (pc = "returned"
             => /\ Len(output) = 2
                /\ output[1].text = "Profit since {}: {:.2f}%"
                /\ output[2].text = "Annualized profit: {:.2f}%")

\* C8: called with two valid date strings that name the same date,
\* calculate_profit_annualized finds zero elapsed years, never reaches its
\* print statements or its normal return, and the exception that leaves
\* it is ZeroDivisionError.
C8_SameDateRaisesZeroDivision ==
    (op = "annualized" /\ NamesValidDate(start_date_str)
       /\ NamesValidDate(end_date_str)
       /\ WrittenDate(start_date_str) = WrittenDate(end_date_str))
    => /\ pc \notin {"annualized:185", "annualized:186", "returned"}
       /\ (years # NoFraction => years.num = 0)
       /\ output = <<>>
       /\ (pc = "raised" => exc = ZeroDivisionError)

\* calculate_profit_annualized("2020-01-01", "2020-01-01") was left by
\* ZeroDivisionError.
C8_Witness ==
    /\ op = "annualized"
    /\ pc = "raised"
    /\ exc = ZeroDivisionError
    /\ start_date_str = Date_2020_01_01
    /\ end_date_str = Date_2020_01_01
    /\ years = [num |-> 0, den |-> 365]

\* C9: the elapsed years are the absolute number of calendar days between
\* the two dates, leap days counted, over 365; they are the same for
\* (start, end) and (end, start), never negative, and 731 / 365 for
\* 2020-01-01 and 2022-01-01.
C9_YearsAreAbsoluteDaysOver365 ==
    pc = "returned"
    => /\ years.den = 365
       /\ years.num = CalendarDaysBetween(start_date, end_date)
       /\ years.num >= 0
       /\ years = calculate_years_difference(end_date, start_date)
       /\ (/\ start_date = [year |-> 2020, month |-> 1, day |-> 1]
           /\ end_date = [year |-> 2022, month |-> 1, day |-> 1]
           => years.num = 731)

\* The years between 2022-01-01 and the earlier 2020-01-01 were computed.
C9_Witness ==
    /\ pc = "returned"
    /\ start_date = [year |-> 2022, month |-> 1, day |-> 1]
    /\ end_date = [year |-> 2020, month |-> 1, day |-> 1]
    /\ years = [num |-> 731, den |-> 365]

\* C10: calculate_profit_annualized prints all or nothing: a call left by
\* an exception has printed no line, a call that returned has printed both,
\* and one line alone is on the output only while the second print is the
\* statement about to run.
C10_AnnualizedOutputAllOrNothing ==
    op = "annualized"
    => /\ (pc = "raised" => output = <<>>)
       /\ (pc = "returned" => Len(output) = 2)
       /\ (Len(output) = 1 => pc = "annualized:186")
       /\ Len(output) <= 2
       /\ (pc = "annualized:186" => ENABLED annualized_186)

\* An arithmetic error left the call after the cumulative profit had been
\* computed, and nothing was printed.
C10_Witness ==
    /\ op = "annualized"
    /\ pc = "raised"
    /\ exc = OverflowError
    /\ total_profit # NoFraction
    /\ output = <<>>

====
